---- MODULE Spec2Model ----
(***************************************************************************)
(* A model of GroupComplex (SimplexBuilder.py): the construction of the    *)
(* polygonal sheets of a finite non-abelian group, their adjacency matrix, *)
(* the connected components and each component's statistics.               *)
(*                                                                         *)
(* The group adapter (Sage) is modelled by the split metacyclic groups     *)
(*   Z_n : Z_m,  (a,b)(c,d) = (a + k^b c mod n, b + d mod m),  k^m = 1,    *)
(* which contain the dihedral groups (m = 2, k = n-1; n = 3 is the         *)
(* symmetric group on 3 points), the dicyclic group of order 12 and the    *)
(* Frobenius group of order 20.  An element (a,b) is the number a*m + b.   *)
(***************************************************************************)
EXTENDS Integers, Sequences, FiniteSets

\* Bounds of the model: the groups Z_n : Z_m with n <= MaxN and m <= MaxM, and
\* the iteration orders 0..MaxVariant of the unordered collections.
MaxN == 5
MaxM == 4
MaxVariant == 1

VARIABLES
  group,                   \* self.group: the parameters <<n, m, k>> of the group
  variant,                 \* which iteration order the sets and the adapter use
  pc,                      \* the position in __init__
  oppCen,                  \* self.oppCen
  representatives,         \* self.representatives
  conjugacyClasses,        \* self.conjugacyClasses: rep -> list
  sheets,                  \* self.sheets: the catalog
  repIdx,                  \* SheetIterator: position in representatives
  dic,                     \* Sheetbuilder: <<[elem, sheets]>> in insertion order
  elem0Idx,                \* Sheetbuilder: position in the class list
  elem1Idx,                \* Sheetbuilder: position in oppCen
  sheet_candidate,         \* Sheetbuilder: the list being closed
  mat,                     \* ComponentBuilder: the sparse matrix, its 1 entries
  i,                       \* ComponentBuilder: the adjacency row
  adjacentSheetsFound,     \* ComponentBuilder: the row's counter
  rawData,                 \* G.connected_components()
  component,               \* ComponentBuilder: position in rawData
  detailedInfo,            \* self.detailedInfo, as a sequence over components
  putativeVertices,        \* the vertices of the component still to visit
  vert,                    \* the vertex being counted
  containingSheetElements, \* the anchors not yet popped or removed
  vertexCount              \* the component's vertex counter

vars == <<group, variant, pc, oppCen, representatives, conjugacyClasses, sheets,
          repIdx, dic, elem0Idx, elem1Idx, sheet_candidate, mat, i,
          adjacentSheetsFound, rawData, component, detailedInfo,
          putativeVertices, vert, containingSheetElements, vertexCount>>

----------------------------------------------------------------------------
(* The group adapter *)

RECURSIVE ModPow(_, _, _)
ModPow(b, e, n) == IF e = 0 THEN 1 % n ELSE (b * ModPow(b, e - 1, n)) % n

\* The non-abelian groups of the family.
Groups ==
  { g \in (3..MaxN) \X (2..MaxM) \X (2..MaxN) :
      /\ g[3] < g[1]
      /\ ModPow(g[3], g[2], g[1]) = 1 }

GN == group[1]
GM == group[2]
GK == group[3]

Elements == 0 .. (GN * GM - 1)

Identity == 0

Mul(x, y) ==
  LET a == x \div GM
      b == x % GM
      c == y \div GM
      d == y % GM
  IN  ((a + ModPow(GK, b, GN) * c) % GN) * GM + ((b + d) % GM)

Inv(x) ==
  LET a == x \div GM
      b == x % GM
      nb == (GM - b) % GM
  IN  ((GN - ((ModPow(GK, nb, GN) * a) % GN)) % GN) * GM + nb

RECURSIVE Power(_, _)
Power(x, e) == IF e = 0 THEN Identity ELSE Mul(Power(x, e - 1), x)

\* x ** (-e)
NegPower(x, e) == Power(Inv(x), e)

RECURSIVE OrderFrom(_, _, _)
OrderFrom(x, y, c) == IF y = Identity THEN c ELSE OrderFrom(x, Mul(y, x), c + 1)

Order(x) == OrderFrom(x, x, 1)

IsAbelian == \A x, y \in Elements : Mul(x, y) = Mul(y, x)

Center == { x \in Elements : \A y \in Elements : Mul(x, y) = Mul(y, x) }

Conj(g, x) == Mul(Mul(Inv(g), x), g)

ClassOf(x) == { Conj(g, x) : g \in Elements }

----------------------------------------------------------------------------
(* Iteration orders of unordered collections *)

Min(S) == CHOOSE x \in S : \A y \in S : x <= y

RECURSIVE Sorted(_)
Sorted(S) == IF S = {} THEN <<>> ELSE <<Min(S)>> \o Sorted(S \ {Min(S)})

Reverse(s) == [p \in 1..Len(s) |-> s[Len(s) + 1 - p]]

Rotate(s, r) == [p \in 1..Len(s) |-> s[((p - 1 + r) % Len(s)) + 1]]

\* The order in which a set is iterated: the sorted order rotated by v, and
\* reversed when v is odd.
Enumerate(S, v) ==
  IF S = {} THEN <<>>
  ELSE LET s == Rotate(Sorted(S), v)
       IN  IF v % 2 = 1 THEN Reverse(s) ELSE s

Range(s) == { s[p] : p \in 1..Len(s) }

\* group.conjugacy_classes_representatives(): one element of every class, the
\* classes in the order of their least elements.
ClassRepresentative(c) == Sorted(c)[(variant % Cardinality(c)) + 1]

ConjugacyClassesRepresentatives ==
  LET mins == Sorted({ Min(ClassOf(x)) : x \in Elements })
  IN  [p \in 1..Len(mins) |-> ClassRepresentative(ClassOf(mins[p]))]

RECURSIVE SelectSeqIn(_, _)
SelectSeqIn(s, S) ==
  IF s = <<>> THEN <<>>
  ELSE (IF Head(s) \in S THEN <<Head(s)>> ELSE <<>>) \o SelectSeqIn(Tail(s), S)

----------------------------------------------------------------------------
(* Reps and ConClasses *)

RepsUnfiltered(oc) == ConjugacyClassesRepresentatives

\* lines 35-40
Reps(oc) == SelectSeqIn(ConjugacyClassesRepresentatives, Range(oc))

\* The positions in oc of the conjugators the inner loop acts on: it stops at
\* the first one that takes the candidate to a representative.
ConjugatorsAllHits(oc, reps, candidate) ==
  { p \in 1..Len(oc) : Conj(oc[p], candidate) \in Range(reps) }

Conjugators(oc, reps, candidate) ==
  LET hits == { p \in 1..Len(oc) : Conj(oc[p], candidate) \in Range(reps) }
  IN  IF hits = {} THEN {} ELSE {Min(hits)}

\* lines 47-51 for one candidate: d with the candidate appended once for every
\* conjugator acted on, to the list of the representative it is taken to
AppendCandidate(d, oc, reps, candidate) ==
  [r \in DOMAIN d |->
     d[r] \o [q \in 1..Cardinality({ p \in Conjugators(oc, reps, candidate) :
                                      Conj(oc[p], candidate) = r }) |-> candidate]]

RECURSIVE ConClassesLoop(_, _, _, _)
ConClassesLoop(d, oc, reps, cands) ==
  IF cands = <<>> THEN d
  ELSE ConClassesLoop(AppendCandidate(d, oc, reps, Head(cands)),
                      oc, reps, Tail(cands))

\* lines 43-52; the candidates are the set difference in its iteration order
ConClasses(oc, reps) ==
  ConClassesLoop([r \in Range(reps) |-> <<r>>], oc, reps,
                 Enumerate(Range(oc) \ Range(reps), variant + 1))

----------------------------------------------------------------------------
(* SheetAdjacency, Sheetbuilder, SheetIterator *)

\* list.index: the position of the first occurrence
Index(s, x) == Min({ p \in 1..Len(s) : s[p] = x })

\* The comparison of line 58 for one pair of entries.
EdgeMatchReversedOnly(sheet0, elem0, sheet1, elem1) ==
  LET n0 == sheet0[Index(sheet0, elem0) + 1]
      n1 == sheet1[Index(sheet1, elem1) + 1]
  IN  <<elem0, n0>> = <<n1, elem1>>

EdgeMatch(sheet0, elem0, sheet1, elem1) ==
  LET n0 == sheet0[Index(sheet0, elem0) + 1]
      n1 == sheet1[Index(sheet1, elem1) + 1]
  IN  \/ <<elem0, n0>> = <<n1, elem1>>
      \/ <<elem0, n0>> = <<elem1, n1>>

SheetAdjacencySharedVertex(sheet0, sheet1) ==
  \E p0 \in 1..(Len(sheet0) - 1) : \E p1 \in 1..(Len(sheet1) - 1) :
    sheet0[p0] = sheet1[p1]

SheetAdjacency(sheet0, sheet1) ==
  \E p0 \in 1..(Len(sheet0) - 1) : \E p1 \in 1..(Len(sheet1) - 1) :
    EdgeMatch(sheet0, sheet0[p0], sheet1, sheet1[p1])

\* line 69: the guard of the sheet construction
NonCommutingAlways(elem0, elem1) == TRUE

NonCommuting(elem0, elem1) == Mul(elem0, elem1) # Mul(elem1, elem0)

\* lines 70 and 72: the entry that follows x in a sheet about elem0
NextEntryNoInverse(x, elem0) == Mul(Mul(x, x), elem0)

NextEntry(x, elem0) == Mul(Inv(x), elem0)

\* lines 73-75: the candidate has the elements of a sheet already kept
AlreadyObtainedAsList(candidate, kept) ==
  \E key \in 1..Len(kept) : candidate = kept[key]

AlreadyObtained(candidate, kept) ==
  \E key \in 1..Len(kept) : Range(candidate) = Range(kept[key])

\* lines 84-86: the catalog entries of one Sheetbuilder dictionary
RECURSIVE Flatten(_)
Flatten(d) ==
  IF d = <<>> THEN <<>>
  ELSE [key \in 1..Len(Head(d).sheets) |->
          [tag |-> <<Head(d).elem, key - 1>>, sheet |-> Head(d).sheets[key]]]
       \o Flatten(Tail(d))

----------------------------------------------------------------------------
(* The state machine: __init__ up to the catalog *)

Init ==
  /\ group \in Groups
  /\ variant \in 0..MaxVariant
  /\ pc = "init"
  /\ oppCen = <<>>
  /\ representatives = <<>>
  /\ conjugacyClasses = <<>>
  /\ sheets = <<>>
  /\ repIdx = 1
  /\ dic = <<>>
  /\ elem0Idx = 1
  /\ elem1Idx = 1
  /\ sheet_candidate = <<>>
  /\ mat = {}
  /\ i = 1
  /\ adjacentSheetsFound = 0
  /\ rawData = <<>>
  /\ component = 1
  /\ detailedInfo = <<>>
  /\ putativeVertices = {}
  /\ vert = 0
  /\ containingSheetElements = {}
  /\ vertexCount = 0

sheetVars == <<repIdx, dic, elem0Idx, elem1Idx, sheet_candidate>>
adjVars == <<mat, i, adjacentSheetsFound>>
compVars == <<rawData, component, detailedInfo, putativeVertices, vert,
              containingSheetElements, vertexCount>>
groupVars == <<group, variant, oppCen, representatives, conjugacyClasses>>

\* lines 16-26
Construct ==
  /\ pc = "init"
  /\ ~IsAbelian
  /\ LET oc == Enumerate(Elements \ Center, variant)
         reps == Reps(oc)
     IN  /\ oppCen' = oc
         /\ representatives' = reps
         /\ conjugacyClasses' = ConClasses(oc, reps)
  /\ pc' = "rep"
  /\ UNCHANGED <<group, variant, sheets, sheetVars, adjVars, compVars>>

CurrentRep == representatives[repIdx]
CurrentClass == conjugacyClasses[CurrentRep]
CurrentElem0 == CurrentClass[elem0Idx]
CurrentElem1 == oppCen[elem1Idx]

\* line 83, lines 64-65: the next representative's Sheetbuilder starts
SheetIteratorNext ==
  /\ pc = "rep"
  /\ repIdx <= Len(representatives)
  /\ dic' = <<>>
  /\ elem0Idx' = 1
  /\ pc' = "elem0"
  /\ UNCHANGED <<groupVars, sheets, repIdx, elem1Idx, sheet_candidate,
                 adjVars, compVars>>

\* lines 65-67
SheetbuilderElem0 ==
  /\ pc = "elem0"
  /\ elem0Idx <= Len(CurrentClass)
  /\ dic' = Append(dic, [elem |-> CurrentElem0, sheets |-> <<>>])
  /\ elem1Idx' = 1
  /\ pc' = "elem1"
  /\ UNCHANGED <<groupVars, sheets, repIdx, elem0Idx, sheet_candidate,
                 adjVars, compVars>>

\* lines 68-69: an element that commutes with the anchor is passed over
SheetbuilderSkip ==
  /\ pc = "elem1"
  /\ elem1Idx <= Len(oppCen)
  /\ ~NonCommuting(CurrentElem0, CurrentElem1)
  /\ elem1Idx' = elem1Idx + 1
  /\ UNCHANGED <<groupVars, pc, sheets, repIdx, dic, elem0Idx, sheet_candidate,
                 adjVars, compVars>>

\* lines 68-70
SheetbuilderStart ==
  /\ pc = "elem1"
  /\ elem1Idx <= Len(oppCen)
  /\ NonCommuting(CurrentElem0, CurrentElem1)
  /\ sheet_candidate' = <<CurrentElem1, NextEntry(CurrentElem1, CurrentElem0)>>
  /\ pc' = "while"
  /\ UNCHANGED <<groupVars, sheets, repIdx, dic, elem0Idx, elem1Idx,
                 adjVars, compVars>>

\* lines 71-72
SheetbuilderAppend ==
  /\ pc = "while"
  /\ sheet_candidate[1] # sheet_candidate[Len(sheet_candidate)]
  /\ sheet_candidate' =
       Append(sheet_candidate,
              NextEntry(sheet_candidate[Len(sheet_candidate)], CurrentElem0))
  /\ UNCHANGED <<groupVars, pc, sheets, repIdx, dic, elem0Idx, elem1Idx,
                 adjVars, compVars>>

\* lines 71, 73-78: the loop is left, the candidate is kept unless obtained
SheetbuilderClose ==
  /\ pc = "while"
  /\ sheet_candidate[1] = sheet_candidate[Len(sheet_candidate)]
  /\ dic' = IF AlreadyObtained(sheet_candidate, dic[Len(dic)].sheets)
            THEN dic
            ELSE [dic EXCEPT ![Len(dic)].sheets = Append(@, sheet_candidate)]
  /\ elem1Idx' = elem1Idx + 1
  /\ pc' = "elem1"
  /\ UNCHANGED <<groupVars, sheets, repIdx, elem0Idx, sheet_candidate,
                 adjVars, compVars>>

\* line 68: oppCen is exhausted for this anchor
SheetbuilderElem0Done ==
  /\ pc = "elem1"
  /\ elem1Idx > Len(oppCen)
  /\ elem0Idx' = elem0Idx + 1
  /\ pc' = "elem0"
  /\ UNCHANGED <<groupVars, sheets, repIdx, dic, elem1Idx, sheet_candidate,
                 adjVars, compVars>>

\* line 79, lines 84-86: Sheetbuilder returns and its sheets join the catalog.
\* SheetIterator calls Sheetbuilder(rep) again for every element and key; the
\* calls read only group, oppCen and conjugacyClasses and return the same
\* dictionary, which is modelled by the one held in dic.
SheetbuilderReturn ==
  /\ pc = "elem0"
  /\ elem0Idx > Len(CurrentClass)
  /\ sheets' = sheets \o Flatten(dic)
  /\ repIdx' = repIdx + 1
  /\ pc' = "rep"
  /\ UNCHANGED <<groupVars, dic, elem0Idx, elem1Idx, sheet_candidate,
                 adjVars, compVars>>

----------------------------------------------------------------------------
(* ComponentBuilder: the adjacency matrix *)

Size == Len(sheets)

\* line 107: sum(mat[r])
RowSum(m, r) == Cardinality({ e \in m : e[1] = r })

\* line 108: the guard of the row's while loop
MoreToFindNoLength(found, sheet) == found < 1

MoreToFind(found, sheet) == found < Len(sheet) + 1

\* lines 109-110: the columns j of one pass over range(i, size) that are found
\* adjacent to row r
PassHits(r) ==
  { j \in r..Size : SheetAdjacency(sheets[r].sheet, sheets[j].sheet) }

\* Graph(mat).connected_components(): the vertices reachable from a set
RECURSIVE Reachable(_, _)
Reachable(m, S) ==
  LET T == S \cup { e[2] : e \in { f \in m : f[1] \in S } }
  IN  IF T = S THEN S ELSE Reachable(m, T)

\* The components as sorted lists, in the order of their least vertices.
ConnectedComponents(m, size) ==
  LET comps == { Reachable(m, {v}) : v \in 1..size }
      mins == Sorted({ Min(c) : c \in comps })
  IN  [p \in 1..Len(mins) |-> Sorted(Reachable(m, {mins[p]}))]

\* lines 102-105
ComponentBuilderEnter ==
  /\ pc = "rep"
  /\ repIdx > Len(representatives)
  /\ mat' = {}
  /\ i' = 1
  /\ pc' = "row"
  /\ UNCHANGED <<groupVars, sheets, sheetVars, adjacentSheetsFound, compVars>>

\* lines 106-107
AdjacencyRow ==
  /\ pc = "row"
  /\ i <= Size
  /\ adjacentSheetsFound' = RowSum(mat, i)
  /\ pc' = "while_adj"
  /\ UNCHANGED <<groupVars, sheets, sheetVars, mat, i, compVars>>

\* lines 108-113: one pass of the for loop inside the while loop
AdjacencyPass ==
  /\ pc = "while_adj"
  /\ MoreToFind(adjacentSheetsFound, sheets[i].sheet)
  /\ LET hits == PassHits(i)
     IN  /\ mat' = mat \cup { <<i, j>> : j \in hits } \cup { <<j, i>> : j \in hits }
         /\ adjacentSheetsFound' = adjacentSheetsFound + Cardinality(hits)
  /\ UNCHANGED <<groupVars, pc, sheets, sheetVars, i, compVars>>

\* line 108: the while loop is left (or never entered) and the next row starts
AdjacencyRowDone ==
  /\ pc = "while_adj"
  /\ ~MoreToFind(adjacentSheetsFound, sheets[i].sheet)
  /\ i' = i + 1
  /\ pc' = "row"
  /\ UNCHANGED <<groupVars, sheets, sheetVars, mat, adjacentSheetsFound, compVars>>

\* lines 115-117
GraphComponents ==
  /\ pc = "row"
  /\ i > Size
  /\ rawData' = ConnectedComponents(mat, Size)
  /\ component' = 1
  /\ pc' = "component"
  /\ UNCHANGED <<groupVars, sheets, sheetVars, adjVars, detailedInfo,
                 putativeVertices, vert, containingSheetElements, vertexCount>>

----------------------------------------------------------------------------
(* ComponentBuilder: the statistics of a component *)

\* line 123: dic[component]["parsed data"]
ParsedData(c) == [p \in 1..Len(rawData[c]) |-> sheets[rawData[c][p]]]

\* line 122
Faces(c) == Len(rawData[c])

\* line 124
Polygon(c) == Len(ParsedData(c)[1].sheet) - 1

\* lines 128-131
PutativeVertices(c) ==
  UNION { Range(ParsedData(c)[p].sheet) : p \in 1..Faces(c) }

\* lines 134-137
ContainingSheetElements(c, v) ==
  { ParsedData(c)[p].tag[1] :
      p \in { q \in 1..Faces(c) : v \in Range(ParsedData(c)[q].sheet) } }

\* line 140
ConjugatesFirstPowerOnly(v, elem) ==
  { Mul(Mul(NegPower(v, q), elem), Power(v, q)) : q \in 1..1 }

Conjugates(v, elem) ==
  { Mul(Mul(NegPower(v, q), elem), Power(v, q)) : q \in 1..(Order(v) - 1) }

\* line 153: the comparison of two boundary edges
SameEdgeForwardOnly(sheet0, s, sheet1, t) ==
  <<sheet0[s], sheet0[s + 1]>> = <<sheet1[t], sheet1[t + 1]>>

SameEdge(sheet0, s, sheet1, t) ==
  \/ <<sheet0[s], sheet0[s + 1]>> = <<sheet1[t], sheet1[t + 1]>>
  \/ <<sheet0[s], sheet0[s + 1]>> = <<sheet1[t + 1], sheet1[t]>>

\* lines 145-154
EdgeCount(c) ==
  Cardinality(
    { q \in (1..Faces(c)) \X (1..Faces(c)) \X (1..Polygon(c)) \X (1..Polygon(c)) :
        /\ q[1] < q[2]
        /\ SameEdge(ParsedData(c)[q[1]].sheet, q[3],
                    ParsedData(c)[q[2]].sheet, q[4]) })

\* lines 151-153 index a sheet up to position polygon: a member sheet that is
\* shorter than the first one raises IndexError
EdgeCountRaises(c) ==
  /\ Faces(c) >= 2
  /\ Polygon(c) >= 1
  /\ \E p \in 1..Faces(c) : Len(ParsedData(c)[p].sheet) < Polygon(c) + 1

\* line 157: (chi - 2)/(-2), an exact rational <<numerator, denominator>>
Genus(chi) ==
  IF (2 - chi) % 2 = 0 THEN <<(2 - chi) \div 2, 1>> ELSE <<2 - chi, 2>>

\* lines 119-128
ComponentStart ==
  /\ pc = "component"
  /\ component <= Len(rawData)
  /\ putativeVertices' = PutativeVertices(component)
  /\ vertexCount' = 0
  /\ pc' = "vert"
  /\ UNCHANGED <<groupVars, sheets, sheetVars, adjVars, rawData, component,
                 detailedInfo, vert, containingSheetElements>>

\* lines 133-137: the set is visited in increasing order of its elements
VertexStart ==
  /\ pc = "vert"
  /\ putativeVertices # {}
  /\ vert' = Min(putativeVertices)
  /\ putativeVertices' = putativeVertices \ {Min(putativeVertices)}
  /\ containingSheetElements' =
       ContainingSheetElements(component, Min(putativeVertices))
  /\ pc' = "pop"
  /\ UNCHANGED <<groupVars, sheets, sheetVars, adjVars, rawData, component,
                 detailedInfo, vertexCount>>

\* lines 138-142: set.pop() returns any element of the set
VertexPop ==
  /\ pc = "pop"
  /\ containingSheetElements # {}
  /\ \E elem \in containingSheetElements :
       containingSheetElements' =
         (containingSheetElements \ {elem}) \ Conjugates(vert, elem)
  /\ vertexCount' = vertexCount + 1
  /\ UNCHANGED <<groupVars, pc, sheets, sheetVars, adjVars, rawData, component,
                 detailedInfo, putativeVertices, vert>>

\* line 138: the set is empty
VertexDone ==
  /\ pc = "pop"
  /\ containingSheetElements = {}
  /\ pc' = "vert"
  /\ UNCHANGED <<groupVars, sheets, sheetVars, adjVars, rawData, component,
                 detailedInfo, putativeVertices, vert, containingSheetElements,
                 vertexCount>>

\* lines 143-157
ComponentFinish ==
  /\ pc = "vert"
  /\ putativeVertices = {}
  /\ IF EdgeCountRaises(component)
     THEN /\ pc' = "IndexError"
          /\ UNCHANGED <<component, detailedInfo>>
     ELSE LET edges == EdgeCount(component)
              chi == vertexCount - edges + Faces(component)
          IN  /\ detailedInfo' =
                   Append(detailedInfo,
                          [rawData |-> rawData[component],
                           faces |-> Faces(component),
                           polygon |-> Polygon(component),
                           vertices |-> vertexCount,
                           edges |-> edges,
                           eulerCharacteristic |-> chi,
                           genus |-> Genus(chi)])
              /\ component' = component + 1
              /\ pc' = "component"
  /\ UNCHANGED <<groupVars, sheets, sheetVars, adjVars, rawData,
                 putativeVertices, vert, containingSheetElements, vertexCount>>

\* line 158
ComponentBuilderReturn ==
  /\ pc = "component"
  /\ component > Len(rawData)
  /\ pc' = "done"
  /\ UNCHANGED <<groupVars, sheets, sheetVars, adjVars, compVars>>

Next ==
  \/ Construct
  \/ SheetIteratorNext
  \/ SheetbuilderElem0
  \/ SheetbuilderSkip
  \/ SheetbuilderStart
  \/ SheetbuilderAppend
  \/ SheetbuilderClose
  \/ SheetbuilderElem0Done
  \/ SheetbuilderReturn
  \/ ComponentBuilderEnter
  \/ AdjacencyRow
  \/ AdjacencyPass
  \/ AdjacencyRowDone
  \/ GraphComponents
  \/ ComponentStart
  \/ VertexStart
  \/ VertexPop
  \/ VertexDone
  \/ ComponentFinish
  \/ ComponentBuilderReturn

Spec == Init /\ [][Next]_vars

----------------------------------------------------------------------------
(* The properties *)

NonCentral == Elements \ Center

\* The boundary edges of a sheet, as unordered pairs.
UEdges(sheet) == { {sheet[p], sheet[p + 1]} : p \in 1..(Len(sheet) - 1) }

Occurrences(x) ==
  { q \in (DOMAIN conjugacyClasses) \X (1..(2 * Cardinality(Elements))) :
      /\ q[2] <= Len(conjugacyClasses[q[1]])
      /\ conjugacyClasses[q[1]][q[2]] = x }

\* C1: the keys of the ConClasses mapping are exactly the non-central
\* representatives, its lists partition the non-central elements (each occurs
\* in exactly one list, exactly once, and nothing else occurs), every list
\* starts with its representative and holds only conjugates of it.
C1_ConClassesPartition ==
  pc = "rep" =>
    /\ DOMAIN conjugacyClasses = Range(ConjugacyClassesRepresentatives) \ Center
    /\ \A x \in NonCentral : Cardinality(Occurrences(x)) = 1
    /\ \A r \in DOMAIN conjugacyClasses :
         /\ Len(conjugacyClasses[r]) >= 1
         /\ conjugacyClasses[r][1] = r
         /\ \A p \in 1..Len(conjugacyClasses[r]) :
              /\ conjugacyClasses[r][p] \in NonCentral
              /\ \E g \in Elements : Conj(g, conjugacyClasses[r][p]) = r

C1_Witness ==
  /\ pc = "rep"
  /\ Len(representatives) >= 3
  /\ \E r \in DOMAIN conjugacyClasses : Len(conjugacyClasses[r]) >= 4

ClosedCycle(sheet) ==
  /\ Len(sheet) - 1 >= 3
  /\ sheet[1] = sheet[Len(sheet)]
  /\ \A p, q \in 1..(Len(sheet) - 1) : p # q => sheet[p] # sheet[q]
  /\ \A p \in 1..(Len(sheet) - 1) : sheet[p] # sheet[p + 1]

\* C2: every list the while loop of Sheetbuilder closes, and every sheet of the
\* catalog, is a closed cycle of at least 3 elements without a repeat before
\* the closing entry and with distinct consecutive entries.
C2_SheetsAreClosedCycles ==
  /\ (pc = "while" /\ sheet_candidate[1] = sheet_candidate[Len(sheet_candidate)])
       => ClosedCycle(sheet_candidate)
  /\ pc = "rep" => \A a \in 1..Size : ClosedCycle(sheets[a].sheet)

C2_Witness ==
  /\ pc = "while"
  /\ sheet_candidate[1] = sheet_candidate[Len(sheet_candidate)]
  /\ Len(sheet_candidate) - 1 >= 5
  /\ AlreadyObtained(sheet_candidate, dic[Len(dic)].sheets)

AdjacencyDone == pc = "row" /\ i > Size

\* C3: after the adjacency phase the matrix is symmetric and, for distinct
\* catalog indices, has a 1 exactly where the two sheets share a boundary edge.
C3_AdjacencyMatrixExact ==
  AdjacencyDone =>
    LET E == [a \in 1..Size |-> UEdges(sheets[a].sheet)]
    IN  \A a, b \in 1..Size :
          a # b =>
            /\ (<<a, b>> \in mat) = (<<b, a>> \in mat)
            /\ (<<a, b>> \in mat) = (E[a] \cap E[b] # {})

C3_Witness ==
  /\ AdjacencyDone
  /\ \E a, b \in 1..Size : a < b /\ <<a, b>> \in mat
  /\ \E a, b \in 1..Size : a < b /\ <<a, b>> \notin mat
  /\ \E a \in 2..Size : Cardinality({ b \in 1..(a - 1) : <<a, b>> \in mat }) >= 2

\* C4: in every connected component all member sheets have the boundary length
\* of the first one, from which "polygon" is taken.
C4_PolygonUniform ==
  pc = "component" =>
    /\ \A c \in 1..Len(rawData) : \A p \in 1..Faces(c) :
         Len(ParsedData(c)[p].sheet) - 1 = Polygon(c)
    /\ \A c \in 1..Len(detailedInfo) : detailedInfo[c].polygon = Polygon(c)

C4_Witness ==
  /\ pc = "component"
  /\ \E c, d \in 1..Len(detailedInfo) :
       /\ detailedInfo[c].faces >= 3
       /\ detailedInfo[c].polygon # detailedInfo[d].polygon

\* C5: the genus of every component is a non-negative integer: with
\* chi = vertices - edges + faces, 2 - chi is even and chi <= 2.
C5_GenusNonNegativeInteger ==
  \A c \in 1..Len(detailedInfo) :
    LET chi == detailedInfo[c].vertices - detailedInfo[c].edges
                 + detailedInfo[c].faces
    IN  /\ detailedInfo[c].eulerCharacteristic = chi
        /\ (2 - chi) % 2 = 0
        /\ chi <= 2
        /\ detailedInfo[c].genus[2] = 1
        /\ detailedInfo[c].genus[1] >= 0
        /\ 2 * detailedInfo[c].genus[1] = 2 - chi

C5_Witness ==
  \E c, d \in 1..Len(detailedInfo) :
    /\ detailedInfo[c].genus = <<4, 1>>
    /\ detailedInfo[d].genus = <<0, 1>>

\* The non-abelian group of order 6: Z_3 : Z_2, the symmetric group on 3 points.
OrderSix == <<3, 2, 2>>

Statistics ==
  { <<detailedInfo[c].vertices, detailedInfo[c].edges, detailedInfo[c].faces,
      detailedInfo[c].genus>> : c \in 1..Len(detailedInfo) }

\* C6 as stated: on the group of order 6 there is exactly one non-central
\* representative and exactly one component.
C6_Original ==
  (pc = "done" /\ group = OrderSix) =>
    /\ Len(representatives) = 1
    /\ Len(detailedInfo) = 1

\* C6 as amended: on the group of order 6 there are exactly two non-central
\* representatives and exactly two components, a pair of triangles with
\* (vertices, edges, faces, genus) = (3, 3, 2, 0) and three squares with
\* (5, 6, 3, 0).
C6_OrderSixEndToEnd ==
  (pc = "done" /\ group = OrderSix) =>
    /\ Len(representatives) = 2
    /\ Cardinality(Range(representatives)) = 2
    /\ Len(sheets) = 5
    /\ Len(detailedInfo) = 2
    /\ Statistics = { <<3, 3, 2, <<0, 1>>>>, <<5, 6, 3, <<0, 1>>>> }

C6_Witness == pc = "done" /\ group = OrderSix /\ Len(detailedInfo) = 2

\* C7: while the closing loop of Sheetbuilder runs, the entries after s[0] are
\* pairwise distinct and differ from s[0] until the last one, and at most
\* |group| entries have been appended: the recurrence comes back to s[0]
\* before it can revisit any other entry.
C7_ClosingLoopBounded ==
  pc = "while" =>
    /\ Len(sheet_candidate) - 2 <= Cardinality(Elements)
    /\ \A p, q \in 2..Len(sheet_candidate) :
         p # q => sheet_candidate[p] # sheet_candidate[q]
    /\ \A p \in 2..(Len(sheet_candidate) - 1) :
         sheet_candidate[p] # sheet_candidate[1]

C7_Witness ==
  /\ pc = "while"
  /\ Len(sheet_candidate) - 2 >= 8
  /\ sheet_candidate[1] = sheet_candidate[Len(sheet_candidate)]

\* C8: whenever the while loop of a row is about to run a pass, sheet i is
\* found adjacent to itself at j = i, and every pass strictly increases
\* adjacentSheetsFound (by at most the number of columns visited) while the
\* threshold len(sheet) + 1 stays the same: the loop of every row is left
\* after at most len(sheet) + 1 passes.
C8_AdjacencyLoopTerminates ==
  /\ []((pc = "while_adj" /\ MoreToFind(adjacentSheetsFound, sheets[i].sheet))
          => i \in PassHits(i))
  /\ [][(pc = "while_adj" /\ pc' = "while_adj")
          => /\ adjacentSheetsFound' > adjacentSheetsFound
             /\ adjacentSheetsFound' <= adjacentSheetsFound + (Size - i + 1)
             /\ adjacentSheetsFound < Len(sheets[i].sheet) + 1
             /\ sheets' = sheets /\ i' = i]_vars

C8_Witness ==
  /\ pc = "while_adj"
  /\ ~MoreToFind(adjacentSheetsFound, sheets[i].sheet)
  /\ RowSum(mat, i) < Len(sheets[i].sheet) + 1
  /\ adjacentSheetsFound > RowSum(mat, i)

CatalogDone == pc = "row" /\ i = 1

\* C9: every boundary edge of a catalog sheet lies on exactly one other catalog
\* sheet, no sheet has the same unordered edge twice, and the edge count of
\* every component is faces * polygon / 2.
C9_EveryEdgeOnTwoSheets ==
  /\ CatalogDone =>
       LET E == [a \in 1..Size |-> UEdges(sheets[a].sheet)]
       IN  \A a \in 1..Size :
             /\ Cardinality(E[a]) = Len(sheets[a].sheet) - 1
             /\ \A e \in E[a] :
                  Cardinality({ b \in 1..Size : b # a /\ e \in E[b] }) = 1
  /\ \A c \in 1..Len(detailedInfo) :
       2 * detailedInfo[c].edges = detailedInfo[c].faces * detailedInfo[c].polygon

C9_Witness ==
  /\ pc = "done"
  /\ \E c \in 1..Len(detailedInfo) :
       detailedInfo[c].faces = 5 /\ detailedInfo[c].edges = 20

\* The anchors conjugate to a under the powers of v.
Orbit(v, a) ==
  { Mul(Mul(NegPower(v, q), a), Power(v, q)) : q \in 0..(Order(v) - 1) }

\* The number of classes of the anchors S under conjugation by powers of v.
OrbitCount(v, S) == Cardinality({ Orbit(v, a) \cap S : a \in S })

RECURSIVE SumOrbitCounts(_, _)
SumOrbitCounts(c, V) ==
  IF V = {} THEN 0
  ELSE OrbitCount(Min(V), ContainingSheetElements(c, Min(V)))
         + SumOrbitCounts(c, V \ {Min(V)})

\* C10: whatever anchors the pops return, the vertex count after the vertices
\* visited so far is the sum over them of the number of classes of their
\* anchors under conjugation by powers of the vertex.
C10_VertexCountPopIndependent ==
  pc = "vert" =>
    vertexCount =
      SumOrbitCounts(component, PutativeVertices(component) \ putativeVertices)

C10_Witness ==
  /\ pc = "pop"
  /\ \E a, b, c \in containingSheetElements :
       /\ a # b
       /\ b \in Conjugates(vert, a)
       /\ c \notin Orbit(vert, a)

====
